---- MODULE Spec2Model ----
(***************************************************************************)
(* lei-mysql (lib/index.js): a MySQL pool wrapper with table-oriented      *)
(* helpers.  The module models                                             *)
(*   - the JavaScript values the helpers receive (tagged records),         *)
(*   - text as a sequence of characters, so that escaping and statement    *)
(*     assembly are computed character by character,                       *)
(*   - SqlStringEscape, parseCondition, parseArrayCondition,               *)
(*     parseObjectCondition and the statement text of insert, update,      *)
(*     delete, select and selectOne,                                       *)
(*   - MySQLPool.prototype.query against a pool of connections, with the   *)
(*     driver's callbacks as separate steps.                               *)
(***************************************************************************)
EXTENDS Integers, Sequences, FiniteSets, TLC

(***************************************************************************)
(* Characters.  A text is a sequence of characters; a character is a       *)
(* one-letter string, except the control characters and the backquote,     *)
(* which are named.                                                        *)
(***************************************************************************)
NUL == "NUL"
LF == "LF"
CR == "CR"
BS == "BS"
TAB == "TAB"
SUB == "SUB"
BSL == "\\"
SQ == "'"
DQ == "\""
BQ == "BQ"
SP == " "

\* The characters the regular expression of line 281 matches.
EscapedChars == {NUL, LF, CR, BS, TAB, BSL, SQ, DQ, SUB}

(***************************************************************************)
(* JavaScript values: [t |-> tag, v |-> payload].  A string's payload is a *)
(* text, an array's a sequence of values, an object's a sequence of        *)
(* [k |-> text, v |-> value] in the order for-in enumerates the keys.      *)
(* A Thrown value stands for an exception raised by the evaluation.        *)
(***************************************************************************)
Undefined == [t |-> "undefined"]
Null == [t |-> "null"]
Bool(b) == [t |-> "boolean", v |-> b]
Num(n) == [t |-> "number", v |-> n]
Str(s) == [t |-> "string", v |-> s]
Arr(a) == [t |-> "array", v |-> a]
Obj(o) == [t |-> "object", v |-> o]
Func == [t |-> "function"]
\* The same function written in strict-mode code.
StrictFunc == [t |-> "function", strict |-> TRUE]
Thrown(name) == [t |-> "throw", v |-> name]

IsThrown(x) == x.t = "throw"
IsArray(x) == x.t = "array"

\* typeof x
TypeOf(x) ==
  CASE x.t = "null" -> "object"
    [] x.t = "array" -> "object"
    [] OTHER -> x.t

\* ToBoolean(x): what x && ..., x || ... and !x test.
Truthy(x) ==
  CASE x.t = "undefined" -> FALSE
    [] x.t = "null" -> FALSE
    [] x.t = "boolean" -> x.v
    [] x.t = "number" -> x.v # 0
    [] x.t = "string" -> x.v # <<>>
    [] OTHER -> TRUE

(***************************************************************************)
(* Text helpers.                                                           *)
(***************************************************************************)
RECURSIVE Flatten(_)
Flatten(parts) ==
  IF parts = <<>> THEN <<>> ELSE Head(parts) \o Flatten(Tail(parts))

\* Array.prototype.join on texts.
RECURSIVE JoinText(_, _)
JoinText(parts, sep) ==
  IF parts = <<>> THEN <<>>
  ELSE IF Len(parts) = 1 THEN parts[1]
  ELSE parts[1] \o sep \o JoinText(Tail(parts), sep)

Digits == <<"0", "1", "2", "3", "4", "5", "6", "7", "8", "9">>

RECURSIVE NatToText(_)
NatToText(n) ==
  IF n < 10 THEN <<Digits[n + 1]>>
  ELSE NatToText(n \div 10) \o <<Digits[(n % 10) + 1]>>

\* val + '' for an integer number.
NumToText(n) == IF n < 0 THEN <<"-">> \o NatToText(-n) ELSE NatToText(n)

(***************************************************************************)
(* Property enumeration and lookup.                                        *)
(***************************************************************************)
\* An array index in canonical form: "0", or digits with no leading zero,
\* of value at most 2^32 - 2.  Object.keys and for-in list these keys first;
\* a digit string of greater value is an ordinary key.
DigitValue(c) == (CHOOSE d \in 1..10 : Digits[d] = c) - 1

IsDigits(k) == \A i \in 1..Len(k) : \E d \in 1..10 : Digits[d] = k[i]

\* a < b for digit strings of the same length.
DigitsLess(a, b) ==
  \E i \in 1..Len(a) :
    /\ \A j \in 1..(i - 1) : a[j] = b[j]
    /\ DigitValue(a[i]) < DigitValue(b[i])

\* a < b for canonical digit strings of any length.
IndexLess(a, b) ==
  \/ Len(a) < Len(b)
  \/ Len(a) = Len(b) /\ DigitsLess(a, b)

MaxIndexKey == <<"4", "2", "9", "4", "9", "6", "7", "2", "9", "4">>

IsIndexKey(k) ==
  /\ k # <<>>
  /\ IsDigits(k)
  /\ (Len(k) > 1 => k[1] # "0")
  /\ ~IndexLess(MaxIndexKey, k)

RECURSIVE TextToNat(_)
TextToNat(k) ==
  IF k = <<>> THEN 0
  ELSE 10 * TextToNat(SubSeq(k, 1, Len(k) - 1)) + DigitValue(k[Len(k)])

\* The keys of an ordinary object in the order for-in and Object.keys give
\* them: the index keys ascending, then the other keys in insertion order.
\* ks is the keys in insertion order, without repetition.
RECURSIVE InsertIndexKey(_, _)
InsertIndexKey(sorted, k) ==
  IF sorted = <<>> THEN <<k>>
  ELSE IF IndexLess(k, Head(sorted)) THEN <<k>> \o sorted
  ELSE <<Head(sorted)>> \o InsertIndexKey(Tail(sorted), k)

RECURSIVE SortIndexKeys(_)
SortIndexKeys(ks) ==
  IF ks = <<>> THEN <<>>
  ELSE InsertIndexKey(SortIndexKeys(SubSeq(ks, 1, Len(ks) - 1)), ks[Len(ks)])

KeyOrder(ks) ==
  SortIndexKeys(SelectSeq(ks, IsIndexKey))
    \o SelectSeq(ks, LAMBDA k : ~IsIndexKey(k))

\* for (var i in x): the enumerable keys of x.
ForInKeys(x) ==
  CASE x.t = "object" -> [i \in 1..Len(x.v) |-> x.v[i].k]
    [] x.t = "array" -> [i \in 1..Len(x.v) |-> NatToText(i - 1)]
    [] x.t = "string" -> [i \in 1..Len(x.v) |-> NatToText(i - 1)]
    [] OTHER -> <<>>

\* The property names every value inherits from its prototype chain.  None
\* of them is enumerable, and all but __proto__ are functions.
ObjectPrototypeKeys ==
  {
    <<"c", "o", "n", "s", "t", "r", "u", "c", "t", "o", "r">>,
    <<"h", "a", "s", "O", "w", "n", "P", "r", "o", "p", "e", "r", "t", "y">>,
    <<"i", "s", "P", "r", "o", "t", "o", "t", "y", "p", "e", "O", "f">>,
    <<"p", "r", "o", "p", "e", "r", "t", "y", "I", "s", "E", "n", "u", "m", "e", "r", "a", "b", "l", "e">>,
    <<"t", "o", "L", "o", "c", "a", "l", "e", "S", "t", "r", "i", "n", "g">>,
    <<"t", "o", "S", "t", "r", "i", "n", "g">>,
    <<"v", "a", "l", "u", "e", "O", "f">>,
    <<"_", "_", "d", "e", "f", "i", "n", "e", "G", "e", "t", "t", "e", "r", "_", "_">>,
    <<"_", "_", "d", "e", "f", "i", "n", "e", "S", "e", "t", "t", "e", "r", "_", "_">>,
    <<"_", "_", "l", "o", "o", "k", "u", "p", "G", "e", "t", "t", "e", "r", "_", "_">>,
    <<"_", "_", "l", "o", "o", "k", "u", "p", "S", "e", "t", "t", "e", "r", "_", "_">>,
    <<"_", "_", "p", "r", "o", "t", "o", "_", "_">>
  }

ArrayPrototypeKeys ==
  {
    <<"a", "t">>,
    <<"c", "o", "n", "c", "a", "t">>,
    <<"c", "o", "p", "y", "W", "i", "t", "h", "i", "n">>,
    <<"e", "n", "t", "r", "i", "e", "s">>,
    <<"e", "v", "e", "r", "y">>,
    <<"f", "i", "l", "l">>,
    <<"f", "i", "l", "t", "e", "r">>,
    <<"f", "i", "n", "d">>,
    <<"f", "i", "n", "d", "I", "n", "d", "e", "x">>,
    <<"f", "i", "n", "d", "L", "a", "s", "t">>,
    <<"f", "i", "n", "d", "L", "a", "s", "t", "I", "n", "d", "e", "x">>,
    <<"f", "l", "a", "t">>,
    <<"f", "l", "a", "t", "M", "a", "p">>,
    <<"f", "o", "r", "E", "a", "c", "h">>,
    <<"i", "n", "c", "l", "u", "d", "e", "s">>,
    <<"i", "n", "d", "e", "x", "O", "f">>,
    <<"j", "o", "i", "n">>,
    <<"k", "e", "y", "s">>,
    <<"l", "a", "s", "t", "I", "n", "d", "e", "x", "O", "f">>,
    <<"m", "a", "p">>,
    <<"p", "o", "p">>,
    <<"p", "u", "s", "h">>,
    <<"r", "e", "d", "u", "c", "e">>,
    <<"r", "e", "d", "u", "c", "e", "R", "i", "g", "h", "t">>,
    <<"r", "e", "v", "e", "r", "s", "e">>,
    <<"s", "h", "i", "f", "t">>,
    <<"s", "l", "i", "c", "e">>,
    <<"s", "o", "m", "e">>,
    <<"s", "o", "r", "t">>,
    <<"s", "p", "l", "i", "c", "e">>,
    <<"u", "n", "s", "h", "i", "f", "t">>,
    <<"v", "a", "l", "u", "e", "s">>,
    <<"t", "o", "R", "e", "v", "e", "r", "s", "e", "d">>,
    <<"t", "o", "S", "o", "r", "t", "e", "d">>,
    <<"t", "o", "S", "p", "l", "i", "c", "e", "d">>,
    <<"w", "i", "t", "h">>
  }

StringPrototypeKeys ==
  {
    <<"a", "n", "c", "h", "o", "r">>,
    <<"a", "t">>,
    <<"b", "i", "g">>,
    <<"b", "l", "i", "n", "k">>,
    <<"b", "o", "l", "d">>,
    <<"c", "h", "a", "r", "A", "t">>,
    <<"c", "h", "a", "r", "C", "o", "d", "e", "A", "t">>,
    <<"c", "o", "d", "e", "P", "o", "i", "n", "t", "A", "t">>,
    <<"c", "o", "n", "c", "a", "t">>,
    <<"e", "n", "d", "s", "W", "i", "t", "h">>,
    <<"f", "i", "x", "e", "d">>,
    <<"f", "o", "n", "t", "c", "o", "l", "o", "r">>,
    <<"f", "o", "n", "t", "s", "i", "z", "e">>,
    <<"i", "n", "c", "l", "u", "d", "e", "s">>,
    <<"i", "n", "d", "e", "x", "O", "f">>,
    <<"i", "t", "a", "l", "i", "c", "s">>,
    <<"l", "a", "s", "t", "I", "n", "d", "e", "x", "O", "f">>,
    <<"l", "i", "n", "k">>,
    <<"l", "o", "c", "a", "l", "e", "C", "o", "m", "p", "a", "r", "e">>,
    <<"m", "a", "t", "c", "h">>,
    <<"m", "a", "t", "c", "h", "A", "l", "l">>,
    <<"n", "o", "r", "m", "a", "l", "i", "z", "e">>,
    <<"p", "a", "d", "E", "n", "d">>,
    <<"p", "a", "d", "S", "t", "a", "r", "t">>,
    <<"r", "e", "p", "e", "a", "t">>,
    <<"r", "e", "p", "l", "a", "c", "e">>,
    <<"r", "e", "p", "l", "a", "c", "e", "A", "l", "l">>,
    <<"s", "e", "a", "r", "c", "h">>,
    <<"s", "l", "i", "c", "e">>,
    <<"s", "m", "a", "l", "l">>,
    <<"s", "p", "l", "i", "t">>,
    <<"s", "t", "a", "r", "t", "s", "W", "i", "t", "h">>,
    <<"s", "t", "r", "i", "k", "e">>,
    <<"s", "u", "b">>,
    <<"s", "u", "b", "s", "t", "r">>,
    <<"s", "u", "b", "s", "t", "r", "i", "n", "g">>,
    <<"s", "u", "p">>,
    <<"t", "o", "L", "o", "c", "a", "l", "e", "L", "o", "w", "e", "r", "C", "a", "s", "e">>,
    <<"t", "o", "L", "o", "c", "a", "l", "e", "U", "p", "p", "e", "r", "C", "a", "s", "e">>,
    <<"t", "o", "L", "o", "w", "e", "r", "C", "a", "s", "e">>,
    <<"t", "o", "U", "p", "p", "e", "r", "C", "a", "s", "e">>,
    <<"t", "r", "i", "m">>,
    <<"t", "r", "i", "m", "E", "n", "d">>,
    <<"t", "r", "i", "m", "L", "e", "f", "t">>,
    <<"t", "r", "i", "m", "R", "i", "g", "h", "t">>,
    <<"t", "r", "i", "m", "S", "t", "a", "r", "t">>,
    <<"i", "s", "W", "e", "l", "l", "F", "o", "r", "m", "e", "d">>,
    <<"t", "o", "W", "e", "l", "l", "F", "o", "r", "m", "e", "d">>
  }

FunctionPrototypeKeys ==
  {
    <<"a", "p", "p", "l", "y">>,
    <<"b", "i", "n", "d">>,
    <<"c", "a", "l", "l">>
  }

NumberPrototypeKeys ==
  {
    <<"t", "o", "E", "x", "p", "o", "n", "e", "n", "t", "i", "a", "l">>,
    <<"t", "o", "F", "i", "x", "e", "d">>,
    <<"t", "o", "P", "r", "e", "c", "i", "s", "i", "o", "n">>
  }
kProto == <<"_", "_", "p", "r", "o", "t", "o", "_", "_">>
kLength == <<"l", "e", "n", "g", "t", "h">>
kName == <<"n", "a", "m", "e">>
kPrototype == <<"p", "r", "o", "t", "o", "t", "y", "p", "e">>
kArguments == <<"a", "r", "g", "u", "m", "e", "n", "t", "s">>
kCaller == <<"c", "a", "l", "l", "e", "r">>

InheritedKeys(x) ==
  ObjectPrototypeKeys \cup
    CASE x.t = "array" -> ArrayPrototypeKeys
      [] x.t = "string" -> StringPrototypeKeys
      [] x.t = "function" -> FunctionPrototypeKeys
      [] x.t = "number" -> NumberPrototypeKeys
      [] OTHER -> {}

\* x[k] for a key x inherits: the prototype itself for __proto__ (an empty
\* array for an array, the function prototype for a function, an object
\* with no enumerable key otherwise), a method for every other key.
Inherited(x, k) ==
  IF k \notin InheritedKeys(x) THEN Undefined
  ELSE IF k # kProto THEN Func
  ELSE IF x.t = "array" THEN Arr(<<>>)
  ELSE IF x.t = "function" THEN Func
  ELSE Obj(<<>>)

\* An index key below n, as a one-based position; 0 if there is none.
\* (No sequence of the model has 10^9 elements.)
IndexBelow(k, n) ==
  IF IsIndexKey(k) /\ Len(k) < 10
  THEN (IF TextToNat(k) < n THEN TextToNat(k) + 1 ELSE 0)
  ELSE 0

IsStrict(x) == "strict" \in DOMAIN x

\* x[k]; reading a property of null or undefined raises a TypeError, and so
\* does reading arguments or caller of a strict-mode function.  An
\* own property comes first (the elements and length of an array or a text,
\* the entries of an object, the length, name, prototype, arguments and
\* caller of a function), then the inherited ones.
GetProp(x, k) ==
  CASE x.t \in {"undefined", "null"} -> Thrown("TypeError")
    [] x.t = "object" ->
         IF \E i \in 1..Len(x.v) : x.v[i].k = k
         THEN x.v[CHOOSE i \in 1..Len(x.v) : x.v[i].k = k].v
         ELSE Inherited(x, k)
    [] x.t = "array" ->
         IF IndexBelow(k, Len(x.v)) > 0 THEN x.v[IndexBelow(k, Len(x.v))]
         ELSE IF k = kLength THEN Num(Len(x.v))
         ELSE Inherited(x, k)
    [] x.t = "string" ->
         IF IndexBelow(k, Len(x.v)) > 0
         THEN Str(<<x.v[IndexBelow(k, Len(x.v))]>>)
         ELSE IF k = kLength THEN Num(Len(x.v))
         ELSE Inherited(x, k)
    [] x.t = "function" ->
         IF k = kLength THEN Num(0)
         ELSE IF k = kName THEN Str(<<>>)
         ELSE IF k = kPrototype THEN Obj(<<>>)
         ELSE IF k \in {kArguments, kCaller}
           THEN (IF IsStrict(x) THEN Thrown("TypeError") ELSE Null)
         ELSE Inherited(x, k)
    [] OTHER -> Inherited(x, k)

\* arr[i] for a zero-based index i.
At(a, i) == IF i < Len(a) THEN a[i + 1] ELSE Undefined

(***************************************************************************)
(* Conversion to text: what string concatenation (lines 129, 138, 166,     *)
(* 168, 189, 211, 217, 323-327, 333) and Array.prototype.join (lines 135,  *)
(* 137, 168, 212, 315, 335) do with a value.                               *)
(***************************************************************************)
\* The source text of a function value, which is what its toString gives.
\* Func stands for the anonymous function with an empty body.
FunctionText ==
  <<"f", "u", "n", "c", "t", "i", "o", "n", " ", "(", ")", " ", "{", "}">>

ObjectText ==
  <<"[", "o", "b", "j", "e", "c", "t", " ", "O", "b", "j", "e", "c", "t", "]">>

kValueOf == <<"v", "a", "l", "u", "e", "O", "f">>
kToString == <<"t", "o", "S", "t", "r", "i", "n", "g">>

IsPrimitive(x) == x.t \notin {"object", "array", "function", "throw"}

HasOwn(x, k) == x.t = "object" /\ \E i \in 1..Len(x.v) : x.v[i].k = k

RECURSIVE FirstThrown(_)
FirstThrown(parts) ==
  IF parts = <<>> THEN Undefined
  ELSE IF IsThrown(Head(parts)) THEN Head(parts)
  ELSE FirstThrown(Tail(parts))

\* The text of a primitive.
PrimitiveText(x) ==
  CASE x.t = "undefined" -> Str(<<"u", "n", "d", "e", "f", "i", "n", "e", "d">>)
    [] x.t = "null" -> Str(<<"n", "u", "l", "l">>)
    [] x.t = "boolean" ->
         IF x.v THEN Str(<<"t", "r", "u", "e">>)
         ELSE Str(<<"f", "a", "l", "s", "e">>)
    [] x.t = "number" -> Str(NumToText(x.v))
    [] OTHER -> x

\* What calling x[k]() gives an object x, for k valueOf or toString: an own
\* entry that is a function is the empty function and returns undefined,
\* the inherited valueOf returns x itself, the inherited toString gives
\* "[object Object]".  An entry that is not callable is passed over, which
\* x itself, not being a primitive, stands for.
MethodResult(x, k) ==
  IF GetProp(x, k).t # "function" THEN x
  ELSE IF HasOwn(x, k) THEN Undefined
  ELSE IF k = kValueOf THEN x
  ELSE Str(ObjectText)

\* ToString of an object: its valueOf and toString are tried in the order
\* that starts with first, the result of the first one that gives a
\* primitive is used, and a TypeError is raised when neither does.
ObjectToStr(x, first) ==
  LET second == IF first = kValueOf THEN kToString ELSE kValueOf
  IN IF IsPrimitive(MethodResult(x, first))
       THEN PrimitiveText(MethodResult(x, first))
     ELSE IF IsPrimitive(MethodResult(x, second))
       THEN PrimitiveText(MethodResult(x, second))
     ELSE Thrown("TypeError")

\* The converted elements joined with sep, or the first exception.
JoinConverted(conv, sep) ==
  IF \E i \in 1..Len(conv) : IsThrown(conv[i]) THEN FirstThrown(conv)
  ELSE Str(JoinText([i \in 1..Len(conv) |-> conv[i].v], sep))

\* ToString(x), as Str(text) or as the exception the conversion raises;
\* first is valueOf for the operand of + and toString for an element of
\* join.  An array and a function have no own entries here, so either order
\* ends in their inherited toString: the elements joined with commas, null
\* and undefined elements giving the empty text, and the source text.
RECURSIVE ToStrFrom(_, _)
ToStrFrom(x, first) ==
  CASE x.t = "object" -> ObjectToStr(x, first)
    [] x.t = "function" -> Str(FunctionText)
    [] x.t = "array" ->
         JoinConverted([i \in 1..Len(x.v) |->
                          IF x.v[i].t \in {"undefined", "null"} THEN Str(<<>>)
                          ELSE ToStrFrom(x.v[i], kToString)],
                       <<",">>)
    [] OTHER -> PrimitiveText(x)

\* '' + x
ToStr(x) == ToStrFrom(x, kValueOf)

\* a + b + ... where the first operand is a string: each operand is
\* converted in turn, and the first exception, of an operand or of its
\* conversion, ends it.
Concat(parts) ==
  JoinConverted([i \in 1..Len(parts) |-> ToStr(parts[i])], <<>>)

(***************************************************************************)
(* Letter case: toUpperCase (line 314) and toLowerCase (line 237).         *)
(***************************************************************************)
LowerLetters ==
  <<"a", "b", "c", "d", "e", "f", "g", "h", "i", "j", "k", "l", "m",
    "n", "o", "p", "q", "r", "s", "t", "u", "v", "w", "x", "y", "z">>
UpperLetters ==
  <<"A", "B", "C", "D", "E", "F", "G", "H", "I", "J", "K", "L", "M",
    "N", "O", "P", "Q", "R", "S", "T", "U", "V", "W", "X", "Y", "Z">>

UpperChar(c) ==
  IF \E i \in 1..26 : LowerLetters[i] = c
  THEN UpperLetters[CHOOSE i \in 1..26 : LowerLetters[i] = c] ELSE c
LowerChar(c) ==
  IF \E i \in 1..26 : UpperLetters[i] = c
  THEN LowerLetters[CHOOSE i \in 1..26 : UpperLetters[i] = c] ELSE c

ToUpperCase(s) == [i \in 1..Len(s) |-> UpperChar(s[i])]
ToLowerCase(s) == [i \in 1..Len(s) |-> LowerChar(s[i])]

\* s.indexOf(sub) === -1
NotFound(s, sub) ==
  \A i \in 1..(Len(s) - Len(sub) + 1) : SubSeq(s, i, i + Len(sub) - 1) # sub

(***************************************************************************)
(* SqlStringEscape (lines 251-293).  SqlString is not defined anywhere in  *)
(* the file, so the branches that use it (arrays, objects) raise a         *)
(* ReferenceError.                                                         *)
(***************************************************************************)
\* As EscapeChar, with the backslash missing from the character class.
EscapeCharKeepBackslash(c) ==
  CASE c = NUL -> <<BSL, "0">>
    [] c = LF -> <<BSL, "n">>
    [] c = CR -> <<BSL, "r">>
    [] c = BS -> <<BSL, "b">>
    [] c = TAB -> <<BSL, "t">>
    [] c = SUB -> <<BSL, "Z">>
    [] c \in {SQ, DQ} -> <<BSL, c>>
    [] OTHER -> <<c>>

\* The replacement function of lines 281-291, for one character.
EscapeChar(c) ==
  CASE c = NUL -> <<BSL, "0">>
    [] c = LF -> <<BSL, "n">>
    [] c = CR -> <<BSL, "r">>
    [] c = BS -> <<BSL, "b">>
    [] c = TAB -> <<BSL, "t">>
    [] c = SUB -> <<BSL, "Z">>
    [] c \in EscapedChars -> <<BSL, c>>
    [] OTHER -> <<c>>

SqlStringEscape(val) ==
  CASE val.t \in {"undefined", "null"} -> Str(<<"N", "U", "L", "L">>)
    [] val.t = "boolean" ->
         IF val.v THEN Str(<<"t", "r", "u", "e">>)
         ELSE Str(<<"f", "a", "l", "s", "e">>)
    [] val.t = "number" -> Str(NumToText(val.v))
    [] val.t = "array" -> Thrown("ReferenceError")
    [] val.t = "object" -> Thrown("ReferenceError")
    [] val.t = "string" ->
         Str(<<SQ>> \o Flatten([i \in 1..Len(val.v) |-> EscapeChar(val.v[i])])
               \o <<SQ>>)
    [] OTHER -> Thrown("TypeError")

\* MySQLPool.prototype.escape
escape(value) == SqlStringEscape(value)

(***************************************************************************)
(* parseCondition, parseArrayCondition, parseObjectCondition               *)
(* (lines 301-336).                                                        *)
(***************************************************************************)
IsStr(x, s) == x.t = "string" /\ x.v = s

\* results.join(sep) where an element may have raised.
JoinRes(parts, sep) ==
  IF \E i \in 1..Len(parts) : IsThrown(parts[i]) THEN FirstThrown(parts)
  ELSE JoinConverted([i \in 1..Len(parts) |->
                        IF parts[i].t \in {"undefined", "null"} THEN Str(<<>>)
                        ELSE ToStrFrom(parts[i], kToString)],
                     sep)

RECURSIVE parseArrayCondition(_)
parseArrayCondition(w) ==
  IF ~IsArray(w) THEN SqlStringEscape(w)
  ELSE
    LET w0 == At(w.v, 0)
        n == Len(w.v)
        ret ==
          CASE IsStr(w0, <<"$", "a", "n", "d">>) \/ IsStr(w0, <<"$", "o", "r">>) ->
                 LET c == ToUpperCase(Tail(w0.v))
                 IN JoinRes([i \in 1..(n - 1) |-> parseArrayCondition(w.v[i + 1])],
                            <<SP>> \o c \o <<SP>>)
            [] IsStr(w0, <<"$", "n", "o", "t">>) ->
                 Concat(<<Str(<<"N", "O", "T", SP>>),
                          parseArrayCondition(At(w.v, 1))>>)
            [] OTHER ->
                 IF n = 0 THEN Bool(FALSE)
                 ELSE IF n = 1 THEN w
                 ELSE IF n = 2
                   THEN Concat(<<Str(<<BQ>>), w0, Str(<<BQ, "=">>),
                                 parseArrayCondition(w.v[2])>>)
                 ELSE Concat(<<Str(<<BQ>>), w0, Str(<<BQ, SP>>), w.v[2],
                               Str(<<SP>>), parseArrayCondition(w.v[3])>>)
    IN Concat(<<Str(<<SP, "(">>), ret, Str(<<")", SP>>)>>)

parseObjectCondition(w) ==
  LET ks == ForInKeys(w)
  IN JoinRes([i \in 1..Len(ks) |->
                Concat(<<Str(<<BQ>>), Str(ks[i]), Str(<<BQ, "=">>),
                         SqlStringEscape(GetProp(w, ks[i]))>>)],
             <<SP, "A", "N", "D", SP>>)

parseCondition(w) ==
  IF w.t = "string" THEN w
  ELSE IF IsArray(w) THEN parseArrayCondition(w)
  ELSE IF Truthy(w) /\ TypeOf(w) = "object" THEN parseObjectCondition(w)
  ELSE Bool(FALSE)

(***************************************************************************)
(* What a helper does before it returns: it raises (Thrown), it reports an *)
(* error through the callback (CallbackError), or it hands a statement to  *)
(* query (Query).                                                          *)
(***************************************************************************)
CallbackError(msg) == [t |-> "callback", v |-> msg]
Query(sql) == [t |-> "query", v |-> sql]

Range(s) == {s[i] : i \in 1..Len(s)}

\* The keys in the order they are first seen.
RECURSIVE FirstSeen(_)
FirstSeen(ks) ==
  IF ks = <<>> THEN <<>>
  ELSE LET r == FirstSeen(SubSeq(ks, 1, Len(ks) - 1))
       IN IF ks[Len(ks)] \in Range(r) THEN r ELSE Append(r, ks[Len(ks)])

\* Lines 109-115: the keys of all items, collected in an object and read
\* back with Object.keys.  Line 112 adds a key when fileds[i] is falsy; for
\* a key that Object.prototype defines the lookup finds the inherited
\* member, which is truthy, so such a key is never added.
insertFields(rows) ==
  LET seen == Flatten([r \in 1..Len(rows) |-> ForInKeys(rows[r])])
      added == SelectSeq(seen, LAMBDA k : ~Truthy(GetProp(Obj(<<>>), k)))
  IN KeyOrder(FirstSeen(added))

\* Line 122: item[f] || ''
insertValue(item, f) ==
  LET p == GetProp(item, f)
  IN IF IsThrown(p) THEN p ELSE IF Truthy(p) THEN p ELSE Str(<<>>)

\* Lines 131-137: one '(' + line.map(escape).join(',') + ')' per item,
\* joined with ',\n'.
insertTuples(values) ==
  JoinRes([r \in 1..Len(values) |->
             Concat(<<Str(<<"(">>),
                      JoinRes([f \in 1..Len(values[r]) |-> escape(values[r][f])],
                              <<",">>),
                      Str(<<")">>)>>)],
          <<",", LF>>)

\* MySQLPool.prototype.insert (lines 101-141), up to the call of query.
insert(table, data) ==
  LET rows == IF IsArray(data) THEN data.v ELSE <<data>>
      first == At(rows, 0)
      fileds == insertFields(rows)
      values == [r \in 1..Len(rows) |->
                   [f \in 1..Len(fileds) |-> insertValue(rows[r], fileds[f])]]
      flat == Flatten(values)
      tuples == insertTuples(values)
      sql == Concat(<<Str(<<"I", "N", "S", "E", "R", "T", SP,
                            "I", "N", "T", "O", SP, BQ>>),
                      table,
                      Str(<<BQ, "(">>),
                      Arr([f \in 1..Len(fileds) |->
                             Str(<<BQ>> \o fileds[f] \o <<BQ>>)]),
                      Str(<<")", SP, "V", "A", "L", "U", "E", "S", LF>>),
                      tuples>>)
  IN IF ~(Truthy(first) /\ TypeOf(first) = "object")
       THEN CallbackError("Bad data format.")
     ELSE IF \E i \in 1..Len(flat) : IsThrown(flat[i]) THEN FirstThrown(flat)
     ELSE IF IsThrown(tuples) THEN tuples
     ELSE IF IsThrown(sql) THEN sql
     ELSE Query(sql.v)

\* if (typeof tail === 'function') { callback = tail; tail = ''; }
tailOf(tail) == IF TypeOf(tail) = "function" THEN Str(<<>>) ELSE tail

T_WHERE == <<SP, "W", "H", "E", "R", "E", SP>>

\* MySQLPool.prototype.update (lines 152-171), up to the call of query.
update(table, where, data, tail) ==
  LET w == parseCondition(where)
      ks == ForInKeys(data)
      set == [i \in 1..Len(ks) |->
                Concat(<<Str(<<BQ>>), Str(ks[i]), Str(<<BQ, "=">>),
                         escape(GetProp(data, ks[i]))>>)]
      sql == Concat(<<Str(<<"U", "P", "D", "A", "T", "E", SP, BQ>>),
                      table,
                      Str(<<BQ, SP, "S", "E", "T", SP>>),
                      JoinRes(set, <<",">>),
                      Str(T_WHERE), w, Str(<<SP>>), tailOf(tail)>>)
  IN IF IsThrown(w) THEN w
     ELSE IF ~(Truthy(data) /\ TypeOf(data) = "object")
       THEN CallbackError("Data must be an object.")
     ELSE IF \E i \in 1..Len(set) : IsThrown(set[i]) THEN FirstThrown(set)
     ELSE IF IsThrown(sql) THEN sql
     ELSE Query(sql.v)

\* MySQLPool.prototype.delete (lines 181-192), up to the call of query.
delete(table, where, tail) ==
  LET w == parseCondition(where)
      sql == Concat(<<Str(<<"D", "E", "L", "E", "T", "E", SP,
                            "F", "R", "O", "M", SP, BQ>>),
                      table, Str(<<BQ>> \o T_WHERE), w, Str(<<SP>>),
                      tailOf(tail)>>)
  IN IF IsThrown(w) THEN w
     ELSE IF IsThrown(sql) THEN sql
     ELSE Query(sql.v)

\* MySQLPool.prototype.select (lines 203-220), up to the call of query.
select(table, fields, where, tail) ==
  LET fs == IF IsArray(fields)
            THEN JoinRes([i \in 1..Len(fields.v) |->
                            Concat(<<Str(<<BQ>>), fields.v[i], Str(<<BQ>>)>>)],
                         <<",", SP>>)
            ELSE fields
      w == parseCondition(where)
      sql == Concat(<<Str(<<"S", "E", "L", "E", "C", "T", SP>>), fs,
                      Str(<<SP, "F", "R", "O", "M", SP, BQ>>), table,
                      Str(<<BQ>> \o T_WHERE), w, Str(<<SP>>), tailOf(tail)>>)
  IN IF IsThrown(fs) THEN fs
     ELSE IF IsThrown(w) THEN w
     ELSE IF IsThrown(sql) THEN sql
     ELSE Query(sql.v)

\* MySQLPool.prototype.selectOne (lines 231-245), up to the call of query.
selectOne(table, fields, where, tail) ==
  LET t0 == tailOf(tail)
      t1 == IF NotFound(ToLowerCase(t0.v), <<"l", "i", "m", "i", "t", SP>>)
            THEN Str(t0.v \o <<SP, "L", "I", "M", "I", "T", SP, "1">>)
            ELSE t0
  IN IF t0.t # "string" THEN Thrown("TypeError")
     ELSE select(table, fields, where, t1)

(***************************************************************************)
(* Bounds and input sets.                                                  *)
(***************************************************************************)
MaxCalls == 2
PoolSize == 1

Calls == 1..MaxCalls
Conns == 1..PoolSize

tA == <<"a">>
tB == <<"b">>
Table == Str(<<"t">>)
RawWhere == Str(<<"i", "d", "=", "1">>)
Select1 == Str(<<"S", "E", "L", "E", "C", "T", SP, "1">>)

Pair(k, v) == [k |-> k, v |-> v]

\* What the driver reports: an error, or a result (a row list, or the
\* packet of a write).
ErrorObj(msg) == [t |-> "error", v |-> msg]
Row1 == Obj(<<Pair(tA, Num(1))>>)
Row2 == Obj(<<Pair(tA, Num(2))>>)
OkPacket == Obj(<<Pair(<<"n">>, Num(1))>>)
DriverResults == {Arr(<<>>), Arr(<<Row1>>), Arr(<<Row1, Row2>>), OkPacket}

(***************************************************************************)
(* State.                                                                  *)
(***************************************************************************)
VARIABLES
  pc,      \* per call: idle, acquiring, running, done, thrown
  req,     \* per call: the helper called and its arguments
  wrapped, \* per call: the callback query got is selectOne's (lines 241-244)
  stmt,    \* per call: args[0] of query
  held,    \* per call: the connection the pool handed out, 0 when none
  log,     \* per call, in order: getConnection, the pool's answer
           \* (pool:error, pool:conn), conn.query, release, callback
  cb,      \* per call: the arguments of each invocation of the caller's callback
  thrown,  \* per call: the exception that escaped, "" when none
  leased,  \* the connections the pool has handed out and not got back
  arg,     \* the input of a pure function
  res      \* its result

vars == <<pc, req, wrapped, stmt, held, log, cb, thrown, leased, arg, res>>
execVars == <<pc, req, wrapped, stmt, held, log, cb, thrown, leased>>

NoReq == [op |-> "none"]
None == [t |-> "none"]

ExecInit ==
  /\ pc = [c \in Calls |-> "idle"]
  /\ req = [c \in Calls |-> NoReq]
  /\ wrapped = [c \in Calls |-> FALSE]
  /\ stmt = [c \in Calls |-> None]
  /\ held = [c \in Calls |-> 0]
  /\ log = [c \in Calls |-> <<>>]
  /\ cb = [c \in Calls |-> <<>>]
  /\ thrown = [c \in Calls |-> ""]
  /\ leased = {}

PureInit == arg = None /\ res = None

(***************************************************************************)
(* The caller's callback as query sees it.  selectOne hands select the     *)
(* function of lines 241-244, which forwards the error or the first row.   *)
(***************************************************************************)
CbArgs(err, result) == [err |-> err, res |-> result]

selectOneCallback(err, list) ==
  IF Truthy(err) THEN CbArgs(err, Undefined)
  ELSE CbArgs(Null, IF Truthy(list) THEN GetProp(list, <<"0">>) ELSE list)

Deliver(c, err, result) ==
  IF wrapped[c] THEN selectOneCallback(err, result) ELSE CbArgs(err, result)

(***************************************************************************)
(* A helper is called: it raises, calls back at once, or calls query,      *)
(* which asks the pool for a connection (line 62).                         *)
(***************************************************************************)
Dispatch(c, r, step, w) ==
  /\ pc[c] = "idle"
  /\ req' = [req EXCEPT ![c] = r]
  /\ wrapped' = [wrapped EXCEPT ![c] = w]
  /\ UNCHANGED <<held, leased, arg, res>>
  /\ CASE step.t = "throw" ->
            /\ pc' = [pc EXCEPT ![c] = "thrown"]
            /\ thrown' = [thrown EXCEPT ![c] = step.v]
            /\ UNCHANGED <<stmt, log, cb>>
       [] step.t = "callback" ->
            /\ pc' = [pc EXCEPT ![c] = "done"]
            /\ cb' = [cb EXCEPT ![c] = Append(@, CbArgs(ErrorObj(step.v), Undefined))]
            /\ log' = [log EXCEPT ![c] = Append(@, "callback")]
            /\ UNCHANGED <<stmt, thrown>>
       [] OTHER ->
            /\ pc' = [pc EXCEPT ![c] = "acquiring"]
            /\ stmt' = [stmt EXCEPT ![c] = Str(step.v)]
            /\ log' = [log EXCEPT ![c] = Append(@, "getConnection")]
            /\ UNCHANGED <<cb, thrown>>

CallQuery(c, sqls) ==
  /\ pc[c] = "idle"
  /\ \E sql \in sqls :
    Dispatch(c, [op |-> "query", sql |-> sql], Query(sql.v), FALSE)

CallInsert(c, datas) ==
  /\ pc[c] = "idle"
  /\ \E data \in datas :
    Dispatch(c, [op |-> "insert", table |-> Table, data |-> data],
             insert(Table, data), FALSE)

CallUpdate(c, wheres, datas, tails) ==
  /\ pc[c] = "idle"
  /\ \E where \in wheres, data \in datas, tail \in tails :
    Dispatch(c, [op |-> "update", table |-> Table, where |-> where,
                 data |-> data, tail |-> tail],
             update(Table, where, data, tail), FALSE)

CallDelete(c, wheres, tails) ==
  /\ pc[c] = "idle"
  /\ \E where \in wheres, tail \in tails :
    Dispatch(c, [op |-> "delete", table |-> Table, where |-> where,
                 tail |-> tail],
             delete(Table, where, tail), FALSE)

CallSelect(c, fieldss, wheres, tails) ==
  /\ pc[c] = "idle"
  /\ \E fields \in fieldss, where \in wheres, tail \in tails :
    Dispatch(c, [op |-> "select", table |-> Table, fields |-> fields,
                 where |-> where, tail |-> tail],
             select(Table, fields, where, tail), FALSE)

CallSelectOne(c, fieldss, wheres, tails) ==
  /\ pc[c] = "idle"
  /\ \E fields \in fieldss, where \in wheres, tail \in tails :
    Dispatch(c, [op |-> "selectOne", table |-> Table, fields |-> fields,
                 where |-> where, tail |-> tail],
             selectOne(Table, fields, where, tail), TRUE)

(***************************************************************************)
(* The function query gives getConnection (lines 62-72).  The pool and the *)
(* driver are the mysql package's: the pool answers a request with an      *)
(* error or with a connection nobody else holds, keeps the request waiting *)
(* while every connection is leased, and takes a connection back on        *)
(* release; the driver invokes the callback it got once.                   *)
(***************************************************************************)
\* As GetConnectionError, with the return of line 63 missing: after the
\* callback the function goes on to line 69 with no connection and raises.
GetConnectionErrorNoReturn(c) ==
  /\ pc[c] = "acquiring"
  /\ pc' = [pc EXCEPT ![c] = "thrown"]
  /\ thrown' = [thrown EXCEPT ![c] = "TypeError"]
  /\ cb' = [cb EXCEPT ![c] =
              Append(@, Deliver(c, ErrorObj("acquire"), Undefined))]
  /\ log' = [log EXCEPT ![c] = @ \o <<"pool:error", "callback">>]
  /\ UNCHANGED <<req, wrapped, stmt, held, leased, arg, res>>

\* if (err) return callback(err);
GetConnectionError(c) ==
  /\ pc[c] = "acquiring"
  /\ pc' = [pc EXCEPT ![c] = "done"]
  /\ cb' = [cb EXCEPT ![c] =
              Append(@, Deliver(c, ErrorObj("acquire"), Undefined))]
  /\ log' = [log EXCEPT ![c] = @ \o <<"pool:error", "callback">>]
  /\ UNCHANGED <<req, wrapped, stmt, held, thrown, leased, arg, res>>

\* The pool hands out a free connection k and conn.query is applied to the
\* arguments (line 69).  The driver either takes the statement or raises
\* at once; nothing catches that, so it leaves the function before any
\* release or callback.
GetConnectionOk(c, k) ==
  /\ pc[c] = "acquiring"
  /\ k \notin leased
  /\ leased' = leased \cup {k}
  /\ held' = [held EXCEPT ![c] = k]
  /\ log' = [log EXCEPT ![c] = @ \o <<"pool:conn", "conn.query">>]
  /\ \/ /\ pc' = [pc EXCEPT ![c] = "running"]
        /\ UNCHANGED thrown
     \/ /\ pc' = [pc EXCEPT ![c] = "thrown"]
        /\ thrown' = [thrown EXCEPT ![c] = "DriverError"]
  /\ UNCHANGED <<req, wrapped, stmt, cb, arg, res>>

\* The function of lines 65-68, invoked by the driver with (err) or
\* (null, result): release the connection, then call back.
QueryCallback(c, err, result) ==
  /\ pc[c] = "running"
  /\ leased' = leased \ {held[c]}
  /\ held' = [held EXCEPT ![c] = 0]
  /\ log' = [log EXCEPT ![c] = @ \o <<"release", "callback">>]
  /\ cb' = [cb EXCEPT ![c] = Append(@, Deliver(c, err, result))]
  /\ pc' = [pc EXCEPT ![c] = "done"]
  /\ UNCHANGED <<req, wrapped, stmt, thrown, arg, res>>

QueryFails(c) == QueryCallback(c, ErrorObj("query"), Undefined)
QuerySucceeds(c) == \E r \in DriverResults : QueryCallback(c, Null, r)

(***************************************************************************)
(* Spec: concurrent calls against the pool.                                *)
(***************************************************************************)
SmallWheres == {Null, RawWhere}
SmallDatas == {Null, Obj(<<Pair(tA, Num(1))>>)}
SmallInserts == {Arr(<<>>), Arr(<<Obj(<<Pair(tA, Num(1))>>)>>)}
Star == Str(<<"*">>)

Init == ExecInit /\ PureInit

Next ==
  \E c \in Calls :
    \/ CallQuery(c, {Select1})
    \/ CallInsert(c, SmallInserts)
    \/ CallUpdate(c, {RawWhere}, SmallDatas, {Func})
    \/ CallDelete(c, SmallWheres, {Func})
    \/ CallSelect(c, {Star}, {RawWhere}, {Func})
    \/ CallSelectOne(c, {Star}, {RawWhere}, {Func})
    \/ GetConnectionError(c)
    \/ \E k \in Conns : GetConnectionOk(c, k)
    \/ QueryFails(c)
    \/ QuerySucceeds(c)

Spec == Init /\ [][Next]_vars

(***************************************************************************)
(* SpecStmt: one call at a time, with a wide range of arguments.           *)
(***************************************************************************)
MaxRows == 2

t1 == <<"1">>
tX == Str(<<"x">>)

\* Objects list their keys in enumeration order: an index key first.
kConstructor == <<"c", "o", "n", "s", "t", "r", "u", "c", "t", "o", "r">>
kToSorted == <<"t", "o", "S", "o", "r", "t", "e", "d">>
\* 2^32 - 1, the least digit string that is not an array index.
kTooLarge == <<"4", "2", "9", "4", "9", "6", "7", "2", "9", "5">>
RowValues == {Num(1), Num(0), tX, Null}
RowKeySeqs == {<<>>, <<tA>>, <<tB>>, <<t1>>, <<tA, tB>>, <<tB, tA>>,
               <<t1, tA>>, <<t1, tB>>}
Rows ==
  UNION {{Obj([i \in 1..Len(ks) |-> Pair(ks[i], vs[i])]) :
            vs \in [1..Len(ks) -> RowValues]} : ks \in RowKeySeqs}

Batches == UNION {[1..n -> Rows] : n \in 1..MaxRows}

WideInserts ==
  {Arr(b) : b \in Batches}
    \cup {Arr(<<>>), Null, tX, Num(1), Arr(<<Null>>), Arr(<<tX>>),
          Arr(<<Num(1)>>), Arr(<<Arr(<<Num(1), Num(2)>>)>>),
          Obj(<<Pair(tA, Num(1))>>),
          Arr(<<Obj(<<Pair(tA, Num(1))>>), Null>>),
          Arr(<<Obj(<<Pair(tA, Arr(<<Num(1)>>))>>)>>),
          Arr(<<Obj(<<Pair(kLength, Num(1))>>), Arr(<<Num(7)>>)>>),
          Arr(<<Obj(<<Pair(kConstructor, Num(1))>>)>>),
          Arr(<<Obj(<<Pair(kToSorted, Num(1))>>), Arr(<<Num(7)>>)>>),
          Arr(<<Obj(<<Pair(kArguments, Num(1))>>), Func>>),
          Arr(<<Obj(<<Pair(kArguments, Num(1))>>), StrictFunc>>),
          Arr(<<Obj(<<Pair(tB, Num(1))>>), Obj(<<Pair(MaxIndexKey, Num(1))>>)>>),
          Arr(<<Obj(<<Pair(tB, Num(1))>>), Obj(<<Pair(kTooLarge, Num(1))>>)>>)}

WideDatas ==
  {Null, Undefined, tX, Num(1), Arr(<<Num(1)>>), Obj(<<>>),
   Obj(<<Pair(tA, Num(1))>>), Obj(<<Pair(tA, tX), Pair(tB, Null)>>),
   Obj(<<Pair(tA, Arr(<<Num(1)>>))>>)}

WideWheres ==
  {Null, Undefined, Arr(<<>>), Obj(<<>>), Str(<<>>), RawWhere,
   Arr(<<Str(tA), Num(1)>>), Obj(<<Pair(tA, Num(1))>>),
   Obj(<<Pair(tA, Arr(<<Num(1)>>))>>)}

Limit5 == Str(<<"L", "i", "m", "i", "t", SP, "5">>)
WideTails ==
  {Func, Str(<<>>), Limit5, Undefined,
   Obj(<<Pair(kToString, Func)>>), Obj(<<Pair(kToString, Num(1))>>),
   Obj(<<Pair(kValueOf, Func)>>)}
WideFields == {Star, Arr(<<Str(tA), Str(tB)>>), Arr(<<Bool(TRUE), Func>>), Func}

NextStmt ==
  \/ CallQuery(1, {Select1})
  \/ CallInsert(1, WideInserts)
  \/ CallUpdate(1, WideWheres, WideDatas, WideTails)
  \/ CallDelete(1, WideWheres, WideTails)
  \/ CallSelect(1, WideFields, WideWheres, WideTails)
  \/ CallSelectOne(1, WideFields, WideWheres, WideTails)
  \/ GetConnectionError(1)
  \/ \E k \in Conns : GetConnectionOk(1, k)
  \/ QueryFails(1)
  \/ QuerySucceeds(1)

SpecStmt == Init /\ [][NextStmt]_vars

(***************************************************************************)
(* SpecEscape: escape applied to one value.                                *)
(***************************************************************************)
MaxTextLen == 2

TextAlphabet == EscapedChars \cup {"a", "n"}
Texts == UNION {[1..n -> TextAlphabet] : n \in 0..MaxTextLen}
EscapeInputs ==
  {Str(s) : s \in Texts}
    \cup {Null, Undefined, Bool(TRUE), Bool(FALSE), Num(42), Num(0), Num(-7)}

InitEscape == ExecInit /\ arg \in EscapeInputs /\ res = None

DoEscape ==
  /\ res = None
  /\ res' = escape(arg)
  /\ UNCHANGED <<arg, execVars>>

SpecEscape == InitEscape /\ [][DoEscape]_vars

(***************************************************************************)
(* SpecCond: parseCondition applied to a condition built from leaves by    *)
(* wrapping it in $not, $and and $or nodes.                                *)
(***************************************************************************)
MaxDepth == 2

kAnd == Str(<<"$", "a", "n", "d">>)
kOr == Str(<<"$", "o", "r">>)
kNot == Str(<<"$", "n", "o", "t">>)
opGt == Str(<<">">>)
opIn == Str(<<"I", "N">>)
List12 == Arr(<<Num(1), Num(2)>>)

CondValues == {Num(1), tX, Null, List12}
CondLeaves ==
  {Arr(<<Str(tA), v>>) : v \in CondValues}
    \cup {Arr(<<Str(tB), opGt, Num(2)>>), Arr(<<Str(tA), opIn, List12>>),
          Arr(<<Str(tB), opIn, Arr(<<tX>>)>>),
          Arr(<<>>), Arr(<<RawWhere>>), RawWhere, Null,
          Obj(<<Pair(tA, Num(1)), Pair(tB, tX)>>),
          Obj(<<Pair(t1, Num(1)), Pair(tA, Null)>>)}

RECURSIVE Depth(_)
Depth(c) ==
  IF IsArray(c) /\ Len(c.v) > 0 /\ (c.v[1] \in {kAnd, kOr, kNot})
  THEN 1 + Depth(c.v[2])
  ELSE 0

InitCond == ExecInit /\ arg \in CondLeaves /\ res = None

Compile ==
  /\ res = None
  /\ res' = parseCondition(arg)
  /\ UNCHANGED <<arg, execVars>>

WrapNot ==
  /\ Depth(arg) < MaxDepth
  /\ arg' = Arr(<<kNot, arg>>)
  /\ res' = None
  /\ UNCHANGED execVars

WrapLogical ==
  /\ Depth(arg) < MaxDepth
  /\ \E k \in {kAnd, kOr} :
       \/ arg' = Arr(<<k, arg>>)
       \/ \E leaf \in CondLeaves : arg' = Arr(<<k, arg, leaf>>)
  /\ res' = None
  /\ UNCHANGED execVars

NextCond == Compile \/ WrapNot \/ WrapLogical

SpecCond == InitCond /\ [][NextCond]_vars
(***************************************************************************)
(* Properties.                                                             *)
(***************************************************************************)
Count(s, e) == Cardinality({i \in 1..Len(s) : s[i] = e})
FirstIndex(s, e) == CHOOSE i \in 1..Len(s) : s[i] = e /\ \A j \in 1..(i - 1) : s[j] # e
Happened(c, e) == e \in Range(log[c])
Finished(c) == pc[c] \in {"done", "thrown"}

\* A text without its blanks and line feeds.
Strip(s) == SelectSeq(s, LAMBDA ch : ch \notin {SP, LF})

\* The text that follows the first occurrence of sub in s.
After(s, sub) ==
  LET i == CHOOSE j \in 1..(Len(s) - Len(sub) + 1) :
             /\ SubSeq(s, j, j + Len(sub) - 1) = sub
             /\ \A h \in 1..(j - 1) : SubSeq(s, h, h + Len(sub) - 1) # sub
  IN SubSeq(s, i + Len(sub), Len(s))

IsDataFormatError(args) ==
  /\ args.err.t = "error"
  /\ args.err.v \in {"Bad data format.", "Data must be an object."}
  /\ args.res = Undefined

\* C1: whenever the pool has handed a call a connection and the call has
\* finished (its callback fired, or conn.query raised), release was invoked
\* exactly once, before the callback, and the call no longer holds the
\* connection; release is never invoked twice, and two calls in flight never
\* hold the same connection.
C1_ReleasedExactlyOnce ==
  \A c \in Calls :
    /\ Count(log[c], "release") <= 1
    /\ (Happened(c, "pool:conn") /\ Finished(c)) =>
         /\ Count(log[c], "release") = 1
         /\ held[c] = 0
         /\ Happened(c, "callback") =>
              FirstIndex(log[c], "release") < FirstIndex(log[c], "callback")
    /\ \A d \in Calls \ {c} : held[c] # 0 => held[c] # held[d]

\* C2: no request ends with an exception instead of a callback, no callback
\* is invoked twice, and a finished request has had exactly one callback,
\* carrying an error or a result but not both and not neither.
C2_ExactlyOneCallback ==
  \A c \in Calls :
    /\ pc[c] # "thrown"
    /\ Len(cb[c]) <= 1
    /\ pc[c] = "done" =>
         /\ Len(cb[c]) = 1
         /\ Truthy(cb[c][1].err) # (cb[c][1].res # Undefined)

\* C3: a call whose acquisition failed has called back once with the
\* acquisition error and has done nothing else: no conn.query, no release,
\* no connection held, and the pool's leases are those of the other calls.
C3_AcquisitionFailure ==
  \A c \in Calls :
    Happened(c, "pool:error") =>
      /\ log[c] = <<"getConnection", "pool:error", "callback">>
      /\ cb[c] = <<CbArgs(ErrorObj("acquire"), Undefined)>>
      /\ pc[c] = "done"
      /\ thrown[c] = ""
      /\ held[c] = 0
      /\ leased = {held[d] : d \in Calls \ {c}} \ {0}

\* C3 witness: a call's acquisition failed while another call was running
\* its statement on a leased connection.
C3_Witness ==
  \E c, d \in Calls :
    /\ Happened(c, "pool:error")
    /\ pc[d] = "running"
    /\ held[d] \in leased

\* C4: insert given no rows or a first row that is not a mapping, and update
\* given data that is not a mapping, have reported a data-format error
\* through the callback by the time the call returns, with no connection
\* requested and no statement built.
C4_BadDataRejected ==
  \A c \in Calls :
    LET r == req[c]
        rows == IF IsArray(r.data) THEN r.data.v ELSE <<r.data>>
    IN (\/ r.op = "insert" /\ (rows = <<>> \/ rows[1].t # "object")
        \/ r.op = "update" /\ r.data.t # "object") =>
         /\ pc[c] = "done"
         /\ log[c] = <<"callback">>
         /\ Len(cb[c]) = 1 /\ IsDataFormatError(cb[c][1])
         /\ stmt[c] = None
         /\ held[c] = 0

\* C5: update given a mapping with no keys reports a data-format error
\* through the callback and sends no statement.
C5_EmptyDataRejected ==
  \A c \in Calls :
    (req[c].op = "update" /\ req[c].data = Obj(<<>>)) =>
      /\ pc[c] = "done"
      /\ Len(cb[c]) = 1 /\ IsDataFormatError(cb[c][1])
      /\ stmt[c] = None

\* The conditions the statement builders are to treat as absent.
EmptyCondition(w) == w \in {Null, Undefined, Arr(<<>>)}
Sentinel == Bool(FALSE)
kWHERE == <<"W", "H", "E", "R", "E">>

ConditionText(c) ==
  LET a == After(stmt[c].v, T_WHERE)
  IN SubSeq(a, 1, Len(a) - 1 - Len(ToStr(tailOf(req[c].tail)).v))

\* C6: for update, delete and select, an absent or empty condition (null,
\* undefined, []) compiles to the sentinel and the statement holds no WHERE;
\* and in a statement that holds WHERE, the text between WHERE and the
\* trailing clause is not empty and is not the sentinel's text.
C6_NoEmptyWhere ==
  \A c \in Calls :
    (req[c].op \in {"update", "delete", "select"} /\ stmt[c] # None) =>
      /\ EmptyCondition(req[c].where) =>
           /\ parseCondition(req[c].where) = Sentinel
           /\ NotFound(stmt[c].v, kWHERE)
      /\ ~NotFound(stmt[c].v, kWHERE) =>
           /\ Strip(ConditionText(c)) # <<>>
           /\ ConditionText(c) # ToStr(Sentinel).v

\* The INSERT text the union-of-keys rule describes.
HasKey(row, k) == \E i \in 1..Len(row.v) : row.v[i].k = k

C7_ExpectedInsert(table, rows) ==
  LET cols == FirstSeen(Flatten([r \in 1..Len(rows) |-> ForInKeys(rows[r])]))
      entry(row, k) == IF HasKey(row, k) THEN escape(GetProp(row, k)).v
                       ELSE <<SQ, SQ>>
      tuple(row) == <<"(">> \o JoinText([f \in 1..Len(cols) |-> entry(row, cols[f])],
                                        <<",">>) \o <<")">>
  IN <<"I", "N", "S", "E", "R", "T", SP, "I", "N", "T", "O", SP, BQ>>
       \o ToStr(table).v \o <<BQ, "(">>
       \o JoinText([f \in 1..Len(cols) |-> <<BQ>> \o cols[f] \o <<BQ>>], <<",">>)
       \o <<")", SP, "V", "A", "L", "U", "E", "S", LF>>
       \o JoinText([r \in 1..Len(rows) |-> tuple(rows[r])], <<",", LF>>)

\* C7: for a non-empty batch of mappings, the INSERT lists the union of the
\* rows' keys in first-seen order and gives one tuple per row, each entry
\* escape(row[column]) when the row has the column and '' when it has not.
C7_InsertUnionOfKeys ==
  \A c \in Calls :
    (/\ req[c].op = "insert"
     /\ IsArray(req[c].data)
     /\ req[c].data.v \in Batches) =>
      /\ stmt[c] # None
      /\ Strip(stmt[c].v) = Strip(C7_ExpectedInsert(req[c].table, req[c].data.v))

\* Reading an escaped text back: the character a two-character escape
\* stands for, and the text a sequence of escapes and plain characters
\* stands for (#bad marks a bare special character or a broken escape).
Unescaped(ch) ==
  CASE ch = "0" -> NUL
    [] ch = "n" -> LF
    [] ch = "r" -> CR
    [] ch = "b" -> BS
    [] ch = "t" -> TAB
    [] ch = "Z" -> SUB
    [] ch \in {BSL, SQ, DQ} -> ch
    [] OTHER -> "#bad"

RECURSIVE Decode(_)
Decode(s) ==
  IF s = <<>> THEN <<>>
  ELSE IF s[1] = BSL
    THEN IF Len(s) >= 2
         THEN <<Unescaped(s[2])>> \o Decode(SubSeq(s, 3, Len(s)))
         ELSE <<"#bad">>
  ELSE IF s[1] \in EscapedChars THEN <<"#bad">>
  ELSE <<s[1]>> \o Decode(Tail(s))

\* C8: for a text, escape gives a single-quoted text whose inside reads,
\* two-character escape by two-character escape (\0 \n \r \b \t \Z \\ \' \"),
\* back as the input, with none of the nine characters left bare; and
\* escape(null) is NULL, escape(true) is true, escape(42) is 42.
C8_EscapeText ==
  res # None =>
    /\ arg.t = "string" =>
         /\ res.t = "string"
         /\ Len(res.v) = 2 + Len(arg.v)
                           + Cardinality({i \in 1..Len(arg.v) : arg.v[i] \in EscapedChars})
         /\ Head(res.v) = SQ
         /\ res.v[Len(res.v)] = SQ
         /\ Decode(SubSeq(res.v, 2, Len(res.v) - 1)) = arg.v
    /\ arg = Null => res = Str(<<"N", "U", "L", "L">>)
    /\ arg = Bool(TRUE) => res = Str(<<"t", "r", "u", "e">>)
    /\ arg = Num(42) => res = Str(<<"4", "2">>)

\* C8 witness: a text holding a backslash followed by a quote has been
\* escaped.
C8_Witness ==
  /\ arg = Str(<<BSL, SQ>>)
  /\ res = Str(<<SQ, BSL, BSL, BSL, SQ, SQ>>)

\* The Escaper as the specification describes it for sequences: the
\* escaped elements, comma-joined, in parentheses.
RECURSIVE EscaperText(_)
EscaperText(v) ==
  IF IsArray(v)
  THEN <<"(">> \o JoinText([i \in 1..Len(v.v) |-> EscaperText(v.v[i])], <<",">>)
         \o <<")">>
  ELSE escape(v).v

IsLogical(c) == IsArray(c) /\ Len(c.v) > 0 /\ c.v[1] \in {kAnd, kOr, kNot}

\* C9: [field, operator, value] compiles (blanks aside) to
\* (field-in-backquotes operator escape(value)), where a sequence value is
\* the Escaper's parenthesized, comma-joined list of its escaped elements.
C9_OperatorNode ==
  (res # None /\ IsArray(arg) /\ Len(arg.v) >= 3 /\ ~IsLogical(arg)) =>
    /\ res.t = "string"
    /\ Strip(res.v) =
         Strip(<<"(", BQ>> \o ToStr(arg.v[1]).v \o <<BQ>> \o ToStr(arg.v[2]).v
                 \o EscaperText(arg.v[3]) \o <<")">>)

\* The prefix expressions made of $and, $or, $not and [field, value]
\* nodes, and the text with one pair of parentheses per node.
RECURSIVE C10_InScope(_)
C10_InScope(c) ==
  /\ IsArray(c)
  /\ Len(c.v) >= 2
  /\ IF c.v[1] \in {kAnd, kOr}
       THEN \A i \in 2..Len(c.v) : C10_InScope(c.v[i])
     ELSE IF c.v[1] = kNot THEN Len(c.v) = 2 /\ C10_InScope(c.v[2])
     ELSE Len(c.v) = 2 /\ c.v[1].t = "string"

RECURSIVE C10_Expected(_)
C10_Expected(c) ==
  IF c.v[1] \in {kAnd, kOr}
    THEN <<"(">> \o JoinText([i \in 1..(Len(c.v) - 1) |-> C10_Expected(c.v[i + 1])],
                             IF c.v[1] = kAnd THEN <<"A", "N", "D">>
                             ELSE <<"O", "R">>)
           \o <<")">>
  ELSE IF c.v[1] = kNot
    THEN <<"(", "N", "O", "T">> \o C10_Expected(c.v[2]) \o <<")">>
  ELSE <<"(", BQ>> \o c.v[1].v \o <<BQ, "=">> \o EscaperText(c.v[2]) \o <<")">>

C10_ExpectedMapping(m) ==
  JoinText([i \in 1..Len(m.v) |->
              <<BQ>> \o m.v[i].k \o <<BQ, "=">> \o EscaperText(m.v[i].v)],
           <<"A", "N", "D">>)

\* C10: a prefix expression compiles (blanks aside) with one pair of
\* parentheses per node: ($and/$or) the compiled operands joined by AND/OR,
\* ($not) NOT and the compiled operand, ([field, value]) the field in
\* backquotes, =, escape(value); an equality mapping compiles to its
\* key=escape(value) entries joined by AND, without parentheses.
C10_OneParenthesisPerNode ==
  res # None =>
    /\ C10_InScope(arg) =>
         res.t = "string" /\ Strip(res.v) = Strip(C10_Expected(arg))
    /\ arg.t = "object" =>
         res.t = "string" /\ Strip(res.v) = Strip(C10_ExpectedMapping(arg))
====
